---- MODULE Spec2Model ----
(***************************************************************************)
(* A model of the OLX search pipeline: search() of the core library, with  *)
(* its pagination loop, its multi-state fan-out and merge, its result      *)
(* shaping and its batched detail enrichment.                              *)
(*                                                                         *)
(* One "frame" is one invocation of search(): frame 0 is the caller's      *)
(* invocation, frames 1..n are the per-state invocations that a            *)
(* multi-state search starts recursively.  A step of a frame is the code   *)
(* that runs between two awaits.                                           *)
(***************************************************************************)
EXTENDS Integers, Sequences, FiniteSets, TLC

VARIABLES
    req,    \* the options of the caller's search() call
    env,    \* what the upstream site can answer in this run
    fr      \* fr[f]: the local state of invocation f

vars == <<req, env, fr>>

----------------------------------------------------------------------------
(* Bounds of the model *)

MaxLimit == 3      \* the caller's limit ranges over 1..MaxLimit
MaxRegions == 2    \* at most this many codes in the state list
PageSize == 2      \* the pageSize upstream reports; also the most ads on a page
MaxPages == 3      \* stands for MAX_PAGES (20 in the source), scaled down
MaxConc == 2       \* concurrency ranges over 1..MaxConc
MaxPrice == 1      \* prices range over 0..MaxPrice

(* Program constants *)

STRICT_FACTOR == 3 \* per-state limit is limit * 3 under strict
RATE_LIMIT_MAX_CONCURRENCY == 3 \* README: "Max concurrency: 3 parallel detail requests"

----------------------------------------------------------------------------
(* Values *)

NULL == 0 - 1                 \* a null price
Infinity == MaxPrice + 1      \* larger than every price

Frames == 0 .. MaxRegions
Sorts == {"relevance", "date", "price_asc", "price_desc"}
Tokens == {"t1", "t2"}        \* the query tokens that survive tokenization

SeqsUpTo(S, n) == UNION {[1 .. k -> S] : k \in 0 .. n}

Min(a, b) == IF a < b THEN a ELSE b

RECURSIVE SumSeq(_)
SumSeq(s) == IF s = <<>> THEN 0 ELSE Head(s) + SumSeq(Tail(s))

(* a slice that keeps everything *)
sliceAll(s, from, to) == s

slice(s, from, to) == SubSeq(s, from + 1, Min(to, Len(s)))   \* Array.slice(from, to), 0-based

----------------------------------------------------------------------------
(* ListingNormalizer: parseAd.  A raw ad is                                *)
(*   [listId, subject, url, price, oldPrice, words, images, uf]            *)
(* listId 0: no listId; subject: it has a title; url 0: no url; price and  *)
(* oldPrice: raw prices; words: the query tokens that occur in its         *)
(* title or property values; images: it has listing images; uf: the state  *)
(* of its locationDetails (0: none).                                       *)

(* A raw price, as ad.priceValue || ad.price or ad.oldPrice hold it.  kind *)
(* "absent": null, undefined or the empty string; "nonstring": a value     *)
(* that is no string; "nodigits": a string in which parseFloat finds no    *)
(* number; "text": a string such as "R$ 3.899", whose cleaned digits read  *)
(* as value.                                                               *)
Price(kind, value) == [kind |-> kind, value |-> value]

NoPrice == Price("absent", 0)

(* the string upstream sends for a price (none for NULL) *)
priceText(p) == IF p = NULL THEN NoPrice ELSE Price("text", p)

parsePrice(priceStr) == IF priceStr.kind = "text" THEN priceStr.value ELSE NULL

(* a parsed price used as a condition: null and 0 are falsy *)
truthy(n) == n # NULL /\ n # 0

(* Math.round(num / den) for num >= 0 and den > 0 *)
round(num, den) == (2 * num + den) \div (2 * den)

discountPercent(price, oldPrice) ==
    IF truthy(oldPrice) /\ truthy(price) /\ oldPrice > price
    THEN round((oldPrice - price) * 100, oldPrice)
    ELSE NULL

hasTitle(ad) == ad.subject

parseAd(ad) ==
    [id          |-> ad.listId,
     price       |-> parsePrice(ad.price),
     oldPrice    |-> parsePrice(ad.oldPrice),
     discountPercent |-> discountPercent(parsePrice(ad.price), parsePrice(ad.oldPrice)),
     permalink   |-> ad.url,
     uf          |-> ad.uf,
     words       |-> ad.words,
     images      |-> IF ad.images THEN "listing" ELSE "none",
     description |-> 0,
     dwords      |-> {},
     attributes  |-> 0,
     sellerName  |-> 0]

RECURSIVE parseAds(_)
(* ads.map(parseAd).filter(Boolean): parseAd returns null without a title *)
parseAds(ads) ==
    IF ads = <<>> THEN <<>>
    ELSE (IF hasTitle(Head(ads)) THEN <<parseAd(Head(ads))>> ELSE <<>>) \o parseAds(Tail(ads))

----------------------------------------------------------------------------
(* PageFetcher and EmbeddedDataExtractor *)

(* What a transport attempt yields for a listing URL: a record             *)
(* [kind, ads, totalOfAds].  kind "fail": the attempt throws (network,     *)
(* timeout, status not ok); "nomarker", "badjson", "noprops": a body       *)
(* without a usable __NEXT_DATA__ block; "noads": pageProps whose ads is   *)
(* no array; "page": pageProps with an ads array.  totalOfAds NULL: the    *)
(* field is absent.                                                        *)
Body(kind, ads, total) == [kind |-> kind, ads |-> ads, totalOfAds |-> total]

Failure == Body("fail", <<>>, NULL)

NullState == Body("null", <<>>, NULL)

(* fetchPage: the direct attempt's body; when it throws, the curl          *)
(* attempt's body or failure                                               *)
fetchPage(direct, curl) == IF direct.kind # "fail" THEN direct ELSE curl

(* extractNextData: pageProps, or null when the marker is missing, the     *)
(* JSON does not parse or props.pageProps does not exist                   *)
extractNextData(html) == IF html.kind \in {"page", "noads"} THEN html ELSE NullState

(* a check that forgets the ads array *)
noPageStateLax(state) == state.kind = "null"

(* !state || !Array.isArray(state.ads) *)
noPageState(state) == state.kind = "null" \/ state.kind # "page"

----------------------------------------------------------------------------
(* Matcher.  A query is the sequence of words that normalize(query)        *)
(* .split(" ") gives; an item's words and dwords are the words that occur  *)
(* as substrings in its normalized title and property values, and in its   *)
(* normalized description.                                                 *)

STOP_WORDS ==
    {"de", "da", "do", "das", "dos", "e", "ou", "em", "com", "para", "por", "um", "uma",
     "o", "a", "os", "as", "no", "na", "nos", "nas", "the", "and", "or", "for", "in",
     "of", "to", "with"}

(* .filter(t => t.length > 1 && !STOP_WORDS.has(t)) *)
getQueryTokens(query) ==
    {query[k] : k \in {j \in 1 .. Len(query) : Len(query[j]) > 1 /\ query[j] \notin STOP_WORDS}}

(* a match on any one token *)
matchesSomeToken(item, tokens) ==
    \/ tokens = {}
    \/ tokens \cap (item.words \cup item.dwords) # {}

(* a match that reads the description of the item's detail page as well *)
matchesWithDetail(item, tokens) ==
    \/ tokens = {}
    \/ \E d \in env.details :
         item.permalink # 0 /\ tokens \subseteq (item.words \cup item.dwords \cup d.dwords)
    \/ tokens \subseteq (item.words \cup item.dwords)

matchesTokens(item, tokens) ==
    \/ tokens = {}
    \/ tokens \subseteq (item.words \cup item.dwords)

(* the strict filter of the single-state branch *)
strictFilter(items, strict, tokens) ==
    IF strict /\ tokens # {}
    THEN SelectSeq(items, LAMBDA it : matchesTokens(it, tokens))
    ELSE items

(* the strict filter of the multi-state branch: matchesQuery *)
strictFilterMerged(items, strict, tokens) ==
    IF strict THEN SelectSeq(items, LAMBDA it : matchesTokens(it, tokens)) ELSE items

----------------------------------------------------------------------------
(* ResultShaper: Array.prototype.sort with the two comparators.  The sort  *)
(* is stable; a comparator result of NaN (Infinity - Infinity) counts as 0.*)

cmpAsc(a, b) ==
    (IF a.price = NULL THEN Infinity ELSE a.price) - (IF b.price = NULL THEN Infinity ELSE b.price)

cmpDesc(a, b) ==
    (IF b.price = NULL THEN 0 ELSE b.price) - (IF a.price = NULL THEN 0 ELSE a.price)

compare(sort, a, b) == IF sort = "price_asc" THEN cmpAsc(a, b) ELSE cmpDesc(a, b)

RECURSIVE insertStable(_, _, _)
(* x goes before the trailing elements of the sorted s that compare > x *)
insertStable(sort, s, x) ==
    IF s = <<>> THEN <<x>>
    ELSE IF compare(sort, s[Len(s)], x) > 0
         THEN Append(insertStable(sort, SubSeq(s, 1, Len(s) - 1), x), s[Len(s)])
         ELSE Append(s, x)

RECURSIVE stableSort(_, _)
stableSort(sort, s) ==
    IF s = <<>> THEN <<>>
    ELSE insertStable(sort, stableSort(sort, SubSeq(s, 1, Len(s) - 1)), s[Len(s)])

(* a shaping that sorts by price whatever the sort option is *)
sortItemsAlways(items, sort) == stableSort("price_asc", items)

sortItems(items, sort) ==
    IF sort \in {"price_asc", "price_desc"} THEN stableSort(sort, items) ELSE items

----------------------------------------------------------------------------
(* Paginator *)

idsOf(items) == {items[k].id : k \in {j \in 1 .. Len(items) : items[j].id # 0}}

(* a membership test that never finds a duplicate *)
isDuplicateNever(item, seenIds) == FALSE

(* if (item.id && seenIds.has(item.id)) continue; *)
isDuplicate(item, seenIds) == item.id # 0 /\ item.id \in seenIds

(* if (item.id) seenIds.add(item.id); *)
remember(item, seenIds) == IF item.id # 0 THEN seenIds \cup {item.id} ELSE seenIds

RECURSIVE accumulate(_, _, _)
(* the loop over newItems: [items, seen] after pushing the unseen ones *)
accumulate(items, seen, newItems) ==
    IF newItems = <<>> THEN [items |-> items, seen |-> seen]
    ELSE LET item == Head(newItems) IN
         IF isDuplicate(item, seen)
         THEN accumulate(items, seen, Tail(newItems))
         ELSE accumulate(Append(items, item), remember(item, seen), Tail(newItems))

(* currentPage * pageSize < totalAvailable, totalAvailable = totalOfAds ?? Infinity *)
moreAvailable(page, totalOfAds) == totalOfAds = NULL \/ page * PageSize < totalOfAds

(* a loop that does not look at the total *)
loopCondNoTotal(f) == Len(f.items) < f.limit /\ f.page < MaxPages

(* the condition of the while loop *)
loopCond(f) ==
    /\ Len(f.items) < f.limit
    /\ moreAvailable(f.page, f.totalOfAds)
    /\ f.page < MaxPages

(* const capped = ... *)
cappedOf(f) ==
    \/ Len(f.items) >= f.limit
    \/ (f.page >= MaxPages /\ moreAvailable(f.page, f.totalOfAds))

----------------------------------------------------------------------------
(* DetailEnricher *)

(* What fetchPage yields for a permalink: [kind, ld, desc, dwords, img,    *)
(* rsc, props, seller].  kind "fail": both transports threw; "throws": a   *)
(* field of a parsed block has a type the extraction cannot handle, so the *)
(* task's try block throws; "detail": a body.  ld: the ld+json block is    *)
(* there and parses; desc: it has a description; dwords: the query tokens  *)
(* in that description; img: it has a non-empty image list; rsc: the       *)
(* object around "adProperties" is recovered and parses; props: it has     *)
(* adProperties other than "category"; seller: it has adDetail.sellerName. *)
Detail(kind, ld, desc, dwords, img, rsc, props, seller) ==
    [kind |-> kind, ld |-> ld, desc |-> desc, dwords |-> dwords, img |-> img,
     rsc |-> rsc, props |-> props, seller |-> seller]

DetailFailure == Detail("fail", FALSE, FALSE, {}, FALSE, FALSE, FALSE, FALSE)

NoDetail == Detail("none", FALSE, FALSE, {}, FALSE, FALSE, FALSE, FALSE)

(* The value of one task of a batch: ok FALSE is the null of the catch     *)
(* clause; otherwise the four fields of the returned object.  The content  *)
(* of a detail page is named by its permalink.                             *)
NoValue ==
    [ok |-> FALSE, description |-> 0, dwords |-> {}, images |-> "none",
     attributes |-> 0, sellerName |-> 0]

detailTask(html, permalink) ==
    IF html.kind # "detail" THEN NoValue
    ELSE [ok          |-> TRUE,
          description |-> IF html.ld /\ html.desc THEN permalink ELSE 0,
          dwords      |-> IF html.ld /\ html.desc THEN html.dwords ELSE {},
          images      |-> IF html.ld /\ html.img THEN "detail" ELSE "none",
          attributes  |-> IF html.rsc /\ html.props THEN permalink ELSE 0,
          sellerName  |-> IF html.rsc /\ html.seller THEN permalink ELSE 0]

(* if (result.status === "fulfilled" && result.value) Object.assign(item, result.value) *)
assignDetail(item, value) ==
    IF value.ok
    THEN [item EXCEPT !.description = value.description,
                      !.dwords = value.dwords,
                      !.images = value.images,
                      !.attributes = value.attributes,
                      !.sellerName = value.sellerName]
    ELSE item

(* a batch loop that steps one too far *)
nextISkip(i, concurrency) == i + concurrency + 1

(* i += concurrency *)
nextI(i, concurrency) == i + concurrency

RECURSIVE withPermalink(_, _)
(* the indices from n on of the items that have a permalink *)
withPermalink(items, n) ==
    IF n > Len(items) THEN <<>>
    ELSE (IF items[n].permalink # 0 THEN <<n>> ELSE <<>>) \o withPermalink(items, n + 1)

(* queue = items.filter(item => item.permalink), as indices into items *)
queueOf(items) == withPermalink(items, 1)

(* a batch that takes the whole rest of the queue *)
batchOfRest(queue, i, concurrency) == {j \in 1 .. Len(queue) : i < j}

(* the positions in queue of queue.slice(i, i + concurrency) *)
batchOf(queue, i, concurrency) ==
    {j \in 1 .. Len(queue) : i < j /\ j <= i + concurrency}

----------------------------------------------------------------------------
(* RegionAggregator *)

RECURSIVE maxLenOf(_)
maxLenOf(stateResults) ==
    IF stateResults = <<>> THEN 0
    ELSE LET m == maxLenOf(Tail(stateResults)) IN
         IF Len(Head(stateResults)) > m THEN Len(Head(stateResults)) ELSE m

RECURSIVE mergeLoop(_, _, _, _, _)
(* the two nested loops of the merge, from rank i (1-based) and array k on *)
mergeLoop(stateResults, i, k, seenIds, merged) ==
    IF i > maxLenOf(stateResults) THEN merged
    ELSE IF k > Len(stateResults) THEN mergeLoop(stateResults, i + 1, 1, seenIds, merged)
    ELSE LET arr == stateResults[k] IN
         IF i > Len(arr) THEN mergeLoop(stateResults, i, k + 1, seenIds, merged)
         ELSE LET item == arr[i] IN
              IF isDuplicate(item, seenIds)
              THEN mergeLoop(stateResults, i, k + 1, seenIds, merged)
              ELSE mergeLoop(stateResults, i, k + 1, remember(item, seenIds),
                             Append(merged, item))

RECURSIVE concatStates(_)
(* a merge that concatenates the arrays instead of interleaving them *)
concatStates(stateResults) ==
    IF stateResults = <<>> THEN <<>>
    ELSE mergeLoop(<<Head(stateResults)>>, 1, 1, {}, <<>>) \o concatStates(Tail(stateResults))

mergeStates(stateResults) == mergeLoop(stateResults, 1, 1, {}, <<>>)

----------------------------------------------------------------------------
(* State *)

(* A state code of the request: 0 is a code outside VALID_STATES, 1, 2,    *)
(* ... are valid codes.  category: "none", "known" (in CATEGORIES) or      *)
(* "unknown".                                                              *)
validState(s) == s # 0

stateList == req.states

(* the URL buildUrl gives for page 1 of a state (0: no state, /brasil) *)
firstUrlOf(state) == 100 + state

IdleFrame ==
    [pc          |-> "idle",   \* idle, start, paging, shape, enrich, await, done, rejected
     error       |-> "none",   \* why it rejected: validation, extraction, transport
     state       |-> 0,        \* singleState (0: none)
     limit       |-> 0,
     items       |-> <<>>,
     seenIds     |-> {},
     page        |-> 0,        \* currentPage; the listing pages requested so far
     totalOfAds  |-> NULL,     \* firstState.totalOfAds
     capped      |-> FALSE,
     queue       |-> <<>>,     \* indices into items
     i           |-> 0,        \* the batch loop's i
     pending     |-> {},       \* positions of queue whose fetch is in flight
     results     |-> <<>>,     \* the settled tasks' values, by position of queue
     fetched     |-> <<>>,     \* every permalink a detail fetch was issued for
     total       |-> 0,        \* pagination.total of the result
     url         |-> 0,        \* query.url of the result (0: null)
     \* history, kept for the properties only
     firstKind   |-> "none",   \* the kind of what fetchPage gave for page 1
     gathered    |-> 0,        \* items.length when the pagination ended
     pageRecords |-> 0,        \* while paging: the records parsed from the page read last
     answers     |-> <<>>,     \* what fetchPage gave for each position of queue
     settled     |-> <<>>,     \* in frame 0: the per-state searches in the order they settled
     outOfOrder  |-> FALSE,    \* a detail fetch settled before one that precedes it in its batch
     removed     |-> <<>>]     \* the permalinks of the items the strict filter removed

subLimit == IF req.strict THEN req.limit * STRICT_FACTOR ELSE req.limit

regions == 1 .. Len(stateList)

(* The listing bodies upstream can serve in this run, with totalOfAds in   *)
(* totals.  Only the first page's totalOfAds is ever read, so the later    *)
(* pages are drawn with the field absent.  A query for a state is answered *)
(* with listings located in that state.                                    *)
Bodies(state, totals) ==
    {Body(k, <<>>, NULL) : k \in env.broken}
        \cup {Body("page", ads, t) :
                 ads \in SeqsUpTo({[a EXCEPT !.uf = state] : a \in env.ads}, PageSize),
                 t \in totals}

Details == env.details

----------------------------------------------------------------------------
(* Steps of one invocation f of search() *)

(* a validation that looks at the first code of the list only *)
invalidFirstOnly ==
    \/ req.category = "unknown"
    \/ (req.states # <<>> /\ ~validState(req.states[1]))

(* validation throws: unknown category, or a code outside VALID_STATES *)
invalid ==
    \/ req.category = "unknown"
    \/ \E k \in 1 .. Len(stateList) : ~validState(stateList[k])

Reject ==
    /\ fr[0].pc = "start"
    /\ invalid
    /\ fr' = [fr EXCEPT ![0].pc = "rejected", ![0].error = "validation"]
    /\ UNCHANGED <<req, env>>

(* stateList.length > 1: one search() per state, started at once *)
FanOut ==
    /\ fr[0].pc = "start"
    /\ ~invalid
    /\ Len(stateList) > 1
    /\ fr' = [f \in Frames |->
                IF f = 0 THEN [fr[0] EXCEPT !.pc = "await"]
                ELSE IF f \in regions
                     THEN [IdleFrame EXCEPT !.pc = "start", !.state = stateList[f],
                                            !.limit = subLimit]
                     ELSE fr[f]]
    /\ UNCHANGED <<req, env>>

(* fr after invocation f has moved to next; a per-state search that        *)
(* resolves or rejects settles its promise of the caller's allSettled      *)
settle(f, next) ==
    LET frs == [fr EXCEPT ![f] = next] IN
    IF f # 0 /\ next.pc \in {"done", "rejected"}
    THEN [frs EXCEPT ![0].settled = Append(@, f)]
    ELSE frs

(* the launch of the batch at fr.i, or the end of the batch loop *)
launch(f) ==
    IF f.i < Len(f.queue)
    THEN LET batch == batchOf(f.queue, f.i, req.concurrency) IN
         [f EXCEPT !.pc = "enrich",
                   !.pending = batch,
                   !.results = [j \in 1 .. Len(f.queue) |-> NoValue],
                   !.fetched = f.fetched \o
                       [n \in 1 .. Cardinality(batch) |-> f.items[f.queue[f.i + n]].permalink]]
    ELSE [f EXCEPT !.pc = "done", !.pending = {}, !.results = <<>>]

(* the first page: fetchPage, extractNextData, the first accumulation *)
firstPage(f, html) ==
    LET firstState == extractNextData(html) IN
    IF html.kind = "fail"
    THEN [f EXCEPT !.pc = "rejected", !.error = "transport", !.page = 1,
                   !.firstKind = html.kind]
    ELSE IF noPageState(firstState)
    THEN [f EXCEPT !.pc = "rejected", !.error = "extraction", !.page = 1,
                   !.firstKind = html.kind]
    ELSE LET items == parseAds(firstState.ads) IN
         [f EXCEPT !.pc = "paging", !.page = 1, !.firstKind = html.kind,
                   !.totalOfAds = firstState.totalOfAds,
                   !.items = items,
                   !.pageRecords = Len(items),
                   !.seenIds = idsOf(items),
                   !.url = firstUrlOf(f.state)]

FirstPage(f) ==
    /\ fr[f].pc = "start"
    /\ f = 0 => (~invalid /\ Len(stateList) <= 1)
    /\ LET f0 == IF f = 0
                 THEN [fr[0] EXCEPT !.state = IF stateList = <<>> THEN 0 ELSE stateList[1],
                                    !.limit = req.limit]
                 ELSE fr[f]
       IN \E b \in Bodies(f0.state, env.totals), direct \in BOOLEAN, curl \in BOOLEAN :
            LET html == fetchPage(IF direct THEN b ELSE Failure,
                                  IF curl THEN b ELSE Failure)
            IN fr' = settle(f, firstPage(f0, html))
    /\ UNCHANGED <<req, env>>

(* one turn of the while loop *)
nextPage(f, html) ==
    LET pageState == extractNextData(html) IN
    IF html.kind = "fail"
    THEN [f EXCEPT !.pc = "rejected", !.error = "transport", !.page = f.page + 1]
    ELSE IF noPageState(pageState) \/ Len(pageState.ads) = 0
    THEN [f EXCEPT !.pc = "shape", !.page = f.page + 1, !.pageRecords = 0]
    ELSE LET acc == accumulate(f.items, f.seenIds, parseAds(pageState.ads)) IN
         [f EXCEPT !.page = f.page + 1, !.items = acc.items, !.seenIds = acc.seen,
                   !.pageRecords = Len(parseAds(pageState.ads))]

NextPage(f) ==
    /\ fr[f].pc = "paging"
    /\ loopCond(fr[f])
    /\ \E b \in Bodies(fr[f].state, {NULL}), direct \in BOOLEAN, curl \in BOOLEAN :
         LET html == fetchPage(IF direct THEN b ELSE Failure, IF curl THEN b ELSE Failure)
         IN fr' = settle(f, nextPage(fr[f], html))
    /\ UNCHANGED <<req, env>>

(* after the loop: capped, strict filter, sort, slice, and the first batch *)
shape(f) ==
    LET capped == cappedOf(f)
        items == slice(sortItems(strictFilter(f.items, req.strict, getQueryTokens(req.query)), req.sort),
                       0, f.limit)
        total == IF f.totalOfAds = NULL \/ f.totalOfAds = 0 THEN Len(items) ELSE f.totalOfAds
        removed == SelectSeq(f.items,
                             LAMBDA it : /\ it.permalink # 0
                                         /\ req.strict
                                         /\ ~matchesTokens(it, getQueryTokens(req.query)))
    IN launch([f EXCEPT !.capped = capped, !.items = items, !.total = total,
                        !.removed = [n \in 1 .. Len(removed) |-> removed[n].permalink],
                        !.queue = queueOf(items), !.i = 0,
                        !.gathered = Len(f.items), !.pageRecords = 0,
                        !.answers = [j \in 1 .. Len(queueOf(items)) |-> NoDetail]])

Shape(f) ==
    /\ \/ fr[f].pc = "shape"
       \/ fr[f].pc = "paging" /\ ~loopCond(fr[f])
    /\ fr' = settle(f, shape(fr[f]))
    /\ UNCHANGED <<req, env>>

(* one detail task of the batch in flight settles *)
SettleDetail(f) ==
    /\ fr[f].pc = "enrich"
    /\ \E j \in fr[f].pending, d \in Details, direct \in BOOLEAN, curl \in BOOLEAN :
         LET html == fetchPage(IF direct THEN d ELSE DetailFailure,
                               IF curl THEN d ELSE DetailFailure)
             item == fr[f].items[fr[f].queue[j]]
         IN fr' = [fr EXCEPT ![f].pending = @ \ {j},
                             ![f].results[j] = detailTask(html, item.permalink),
                             ![f].answers[j] = html,
                             ![f].outOfOrder = @ \/ \E k \in fr[f].pending : k < j]
    /\ UNCHANGED <<req, env>>

(* every item of the batch is given the value of the batch's first task *)
firstResult(results, queue, batch, n) == results[CHOOSE j \in batch : \A k \in batch : j <= k]

(* results[j] for batch[j]: the value of the task that was started for item n *)
ownResult(results, queue, batch, n) == results[CHOOSE j \in batch : queue[j] = n]

(* Promise.allSettled resolved: assign the values, then the next batch *)
finishBatch(f) ==
    LET batch == batchOf(f.queue, f.i, req.concurrency)
        items == [n \in 1 .. Len(f.items) |->
                    IF \E j \in batch : f.queue[j] = n
                    THEN assignDetail(f.items[n], ownResult(f.results, f.queue, batch, n))
                    ELSE f.items[n]]
    IN launch([f EXCEPT !.items = items, !.i = nextI(f.i, req.concurrency)])

FinishBatch(f) ==
    /\ fr[f].pc = "enrich"
    /\ fr[f].pending = {}
    /\ fr' = settle(f, finishBatch(fr[f]))
    /\ UNCHANGED <<req, env>>

RECURSIVE outcomes(_, _)
(* the per-state searches from k on, in request order, whose pc is in S *)
outcomes(S, k) ==
    IF k > Len(stateList) THEN <<>>
    ELSE (IF fr[k].pc \in S THEN <<k>> ELSE <<>>) \o outcomes(S, k + 1)

(* a merge that takes the rejected searches' items too *)
allSettled == outcomes({"done", "rejected"}, 1)

(* a merge that takes the results in the order the searches settled *)
fulfilledAsSettled == SelectSeq(fr[0].settled, LAMBDA k : fr[k].pc = "done")

(* every per-state search has settled: the merge and the result *)
(* if (outcome.status !== "fulfilled") continue; *)
fulfilled == outcomes({"done"}, 1)

merge(f) ==
    LET stateResults == [n \in 1 .. Len(fulfilled) |-> fr[fulfilled[n]].items]
        totals == [n \in 1 .. Len(fulfilled) |-> fr[fulfilled[n]].total]
        merged == slice(sortItems(strictFilterMerged(mergeStates(stateResults),
                                                     req.strict, getQueryTokens(req.query)),
                                  req.sort),
                        0, req.limit)
    IN [f EXCEPT !.pc = "done",
                 !.limit = req.limit,
                 !.items = merged,
                 !.total = SumSeq(totals),
                 !.url = IF fulfilled = <<>> THEN 0 ELSE fr[fulfilled[1]].url,
                 !.capped = Len(merged) >= req.limit]

(* Promise.all: the first rejection among the searches rejects the caller *)
promiseAll(f, result) ==
    IF \E k \in regions : fr[k].pc = "rejected"
    THEN [f EXCEPT !.pc = "rejected", !.error = "transport"]
    ELSE result

(* await Promise.allSettled(...): it fulfils whatever the searches did *)
promiseAllSettled(f, result) == result

Merge ==
    /\ fr[0].pc = "await"
    /\ \A k \in regions : fr[k].pc \in {"done", "rejected"}
    /\ fr' = [fr EXCEPT ![0] = promiseAllSettled(fr[0], merge(fr[0]))]
    /\ UNCHANGED <<req, env>>

Next ==
    \/ Reject
    \/ FanOut
    \/ Merge
    \/ \E f \in Frames : FirstPage(f)
    \/ \E f \in Frames : NextPage(f)
    \/ \E f \in Frames : Shape(f)
    \/ \E f \in Frames : SettleDetail(f)
    \/ \E f \in Frames : FinishBatch(f)

----------------------------------------------------------------------------
(* searchRaw(), with the two attempts of its fetchPage call as steps of    *)
(* their own.  Under SpecRaw fr[0] holds the locals of the one call.       *)

(* an attempt that has not been made *)
NotTried == Body("untried", <<>>, NULL)

RawFrame ==
    [pc     |-> "start",    \* start, direct, curl, fetched, returned, rejected
     error  |-> "none",     \* why it rejected: validation, transport, extraction
     url    |-> <<>>,       \* the URL requested (<<>>: none yet)
     tries  |-> <<>>,       \* the transports attempted, in order
     direct |-> NotTried,   \* how fetchWithFetch settled
     curl   |-> NotTried,   \* how fetchWithCurl settled
     html   |-> NotTried,   \* what fetchPage returned
     result |-> NullState]  \* state_, the value searchRaw resolves with

(* buildUrl for page 1: the path is made of the category and of the state  *)
(* option as it was passed                                                 *)
buildUrl(category, state) == <<[category |-> category, state |-> state]>>

(* the state option of the call: searchRaw does not split it *)
rawState == req.states

(* what either transport can get for the URL *)
RawOutcomes == {Failure} \cup Bodies(IF rawState = <<>> THEN 0 ELSE rawState[1], env.totals)

(* the category test of searchRaw throws *)
RawReject ==
    /\ fr[0].pc = "start"
    /\ req.category = "unknown"
    /\ fr' = [fr EXCEPT ![0].pc = "rejected", ![0].error = "validation"]
    /\ UNCHANGED <<req, env>>

(* buildUrl, then fetchPage starts its direct attempt *)
RawFetch ==
    /\ fr[0].pc = "start"
    /\ req.category # "unknown"
    /\ fr' = [fr EXCEPT ![0].pc = "direct",
                        ![0].url = buildUrl(req.category, rawState),
                        ![0].tries = <<"fetch">>]
    /\ UNCHANGED <<req, env>>

(* a fetchPage that runs curl whatever the direct attempt gave *)
afterFetchAlways(f, outcome) ==
    [f EXCEPT !.direct = outcome, !.tries = Append(@, "curl"), !.pc = "curl"]

(* fetchPage: return await fetchWithFetch(...), or the catch clause *)
afterFetch(f, outcome) ==
    IF outcome.kind # "fail"
    THEN [f EXCEPT !.direct = outcome, !.html = outcome, !.pc = "fetched"]
    ELSE [f EXCEPT !.direct = outcome, !.tries = Append(@, "curl"), !.pc = "curl"]

(* fetchPage: return fetchWithCurl(...), whose failure is fetchPage's *)
afterCurl(f, outcome) ==
    IF outcome.kind # "fail"
    THEN [f EXCEPT !.curl = outcome, !.html = outcome, !.pc = "fetched"]
    ELSE [f EXCEPT !.curl = outcome, !.pc = "rejected", !.error = "transport"]

FetchSettles ==
    /\ fr[0].pc = "direct"
    /\ \E outcome \in RawOutcomes : fr' = [fr EXCEPT ![0] = afterFetch(fr[0], outcome)]
    /\ UNCHANGED <<req, env>>

CurlSettles ==
    /\ fr[0].pc = "curl"
    /\ \E outcome \in RawOutcomes : fr' = [fr EXCEPT ![0] = afterCurl(fr[0], outcome)]
    /\ UNCHANGED <<req, env>>

(* extractNextData, and the throw when it gives null *)
RawExtract ==
    /\ fr[0].pc = "fetched"
    /\ LET state_ == extractNextData(fr[0].html) IN
       fr' = [fr EXCEPT ![0] = IF state_.kind = "null"
                                THEN [fr[0] EXCEPT !.pc = "rejected", !.error = "extraction"]
                                ELSE [fr[0] EXCEPT !.pc = "returned", !.result = state_]]
    /\ UNCHANGED <<req, env>>

NextRaw ==
    \/ RawReject
    \/ RawFetch
    \/ FetchSettles
    \/ CurlSettles
    \/ RawExtract

----------------------------------------------------------------------------
(* Initial states: the request and what upstream can serve *)

Ad(listId, url, price, subject, words, images) ==
    [listId |-> listId, url |-> url, price |-> priceText(price), oldPrice |-> NoPrice,
     subject |-> subject, words |-> words, images |-> images, uf |-> 0]

(* the state lists: entry k is code k or the invalid code 0 *)
StateLists ==
    {s \in SeqsUpTo(0 .. MaxRegions, MaxRegions) : \A k \in 1 .. Len(s) : s[k] \in {0, k}}

(* listings that differ in identity and permalink, and one without title *)
AdsById ==
    {Ad(1, 11, NULL, TRUE, {"t1"}, TRUE),
     Ad(2, 12, NULL, TRUE, {"t1"}, TRUE),
     Ad(0, 0, NULL, TRUE, {"t1"}, TRUE),
     Ad(2, 12, NULL, FALSE, {"t1"}, TRUE)}

(* fewer listings, for the runs with several states *)
AdsFew ==
    {Ad(1, 11, NULL, TRUE, {"t1"}, TRUE),
     Ad(0, 0, NULL, TRUE, {"t1"}, TRUE)}

(* listings that hold one or both or none of the query's tokens; the first *)
(* has a detail page                                                       *)
AdsByWords ==
    {Ad(0, 11, NULL, TRUE, {"t1"}, TRUE),
     Ad(0, 0, NULL, TRUE, {"t1", "t2"}, TRUE),
     Ad(0, 0, NULL, TRUE, {}, TRUE)}

(* queries: two tokens around a stop word; a stop word and a single letter *)
Queries == {<<"t1", "de", "t2">>, <<"de", "x">>}

(* listings that differ in price, and one that does not match the query *)
AdsByPrice ==
    {Ad(0, 0, p, TRUE, {"t1"}, TRUE) : p \in {NULL} \cup (0 .. MaxPrice)}
        \cup {Ad(0, 0, NULL, TRUE, {}, TRUE)}

(* totalOfAds: none, exactly one page, one page more, more than the budget *)
Totals == {0, PageSize, PageSize + 1, MaxPages * PageSize + 1}

(* a failed fetch, a body with neither block, a body with both blocks *)
DetailsBasic ==
    {DetailFailure,
     Detail("detail", FALSE, FALSE, {}, FALSE, FALSE, FALSE, FALSE),
     Detail("detail", TRUE, TRUE, {}, TRUE, TRUE, TRUE, TRUE)}

StartFrames == [f \in Frames |-> IF f = 0 THEN [IdleFrame EXCEPT !.pc = "start"] ELSE IdleFrame]

(* one state at most: pagination, dedup and enrichment in full *)
InitPaging ==
    /\ req \in [limit : 1 .. MaxLimit, sort : {"relevance"}, strict : {FALSE},
                query : {<<"t1">>}, concurrency : 1 .. MaxConc,
                states : {s \in StateLists : Len(s) <= 1},
                category : {"none", "unknown"}, noRateLimit : {FALSE}]
    /\ env = [ads |-> AdsById, totals |-> Totals,
              broken |-> {"nomarker", "noads"},
              details |-> DetailsBasic]
    /\ fr = StartFrames

(* several states *)
InitMulti ==
    /\ req \in [limit : 1 .. MaxLimit, sort : {"relevance"}, strict : {FALSE},
                query : {<<"t1">>}, concurrency : {MaxConc},
                states : {s \in StateLists : Len(s) > 1},
                category : {"none"}, noRateLimit : {FALSE}]
    /\ env = [ads |-> AdsFew, totals |-> {0, PageSize + 1},
              broken |-> {"nomarker"},
              details |-> {DetailFailure,
                           Detail("detail", TRUE, TRUE, {}, TRUE, TRUE, TRUE, TRUE)}]
    /\ fr = StartFrames

(* sort orders and the strict filter, on one page per state *)
InitShape ==
    /\ req \in [limit : 1 .. MaxLimit, sort : Sorts, strict : BOOLEAN,
                query : {<<"t1">>}, concurrency : {MaxConc},
                states : {s \in StateLists : Len(s) # 1 /\ \A k \in 1 .. Len(s) : s[k] # 0},
                category : {"none"}, noRateLimit : {FALSE}]
    /\ env = [ads |-> AdsByPrice, totals |-> {0}, broken |-> {}, details |-> {DetailFailure}]
    /\ fr = StartFrames

(* Numeric options at and beyond their edges: a limit and a concurrency of *)
(* 0, and a concurrency above the documented rate-limit cap.  The library  *)
(* does not read noRateLimit (it is not among the destructured options).   *)
InitOptions ==
    /\ req \in [limit : {0, 1, RATE_LIMIT_MAX_CONCURRENCY + 1}, sort : {"relevance"},
                strict : {FALSE}, query : {<<"t1">>},
                concurrency : {0, RATE_LIMIT_MAX_CONCURRENCY + 1},
                states : {<<>>}, category : {"none"}, noRateLimit : BOOLEAN]
    /\ env = [ads |-> {Ad(0, 11, NULL, TRUE, {"t1"}, TRUE)},
              totals |-> {PageSize + 1, MaxPages * PageSize + 1}, broken |-> {},
              details |-> {DetailFailure}]
    /\ fr = StartFrames

(* the strict filter: queries with and without surviving tokens, and a     *)
(* description that holds a token the title lacks                          *)
InitStrict ==
    /\ req \in [limit : 1 .. MaxLimit, sort : {"relevance"}, strict : BOOLEAN,
                query : Queries, concurrency : {MaxConc},
                states : {s \in StateLists : Len(s) # 1 /\ \A k \in 1 .. Len(s) : s[k] # 0},
                category : {"none"}, noRateLimit : {FALSE}]
    /\ env = [ads |-> AdsByWords, totals |-> {0}, broken |-> {},
              details |-> {Detail("detail", TRUE, TRUE, {"t2"}, FALSE, FALSE, FALSE, FALSE)}]
    /\ fr = StartFrames

Init == InitPaging \/ InitMulti \/ InitShape \/ InitOptions \/ InitStrict

Spec == Init /\ [][Next]_vars

(* one call of searchRaw: no state, an invalid code, a valid code *)
InitRaw ==
    /\ req \in [limit : {1}, sort : Sorts, strict : {FALSE}, query : {<<"t1">>},
                concurrency : {1}, states : {s \in StateLists : Len(s) <= 1},
                category : {"none", "unknown"}, noRateLimit : {FALSE}]
    /\ env = [ads |-> AdsFew, totals |-> {0}, broken |-> {"nomarker", "noads"},
              details |-> {DetailFailure}]
    /\ fr = [f \in {0} |-> RawFrame]

SpecRaw == InitRaw /\ [][NextRaw]_vars

----------------------------------------------------------------------------
(* parseAd on its own: one raw ad, normalised.  Under SpecAd fr[0] holds   *)
(* the ad and, once parsed, the items it gives.                            *)

(* absent, ill-typed and unreadable prices, small prices, and the prices   *)
(* of the documented example                                               *)
RawPrices ==
    {Price(k, 0) : k \in {"absent", "nonstring", "nodigits"}}
        \cup {Price("text", n) : n \in (0 .. MaxPrice + 2) \cup {3899, 4999}}

RawAds ==
    {[Ad(0, 0, NULL, subject, {}, FALSE) EXCEPT !.price = p, !.oldPrice = o] :
        subject \in BOOLEAN, p \in RawPrices, o \in RawPrices}

(* [ad].map(parseAd).filter(Boolean) *)
ParseAd ==
    /\ fr[0].pc = "raw"
    /\ fr' = [fr EXCEPT ![0].pc = "parsed", ![0].items = parseAds(<<fr[0].ad>>)]
    /\ UNCHANGED <<req, env>>

NextAd == ParseAd

InitAd ==
    /\ req = [limit |-> 1, sort |-> "relevance", strict |-> FALSE, query |-> <<"t1">>,
              concurrency |-> 1, states |-> <<>>, category |-> "none",
              noRateLimit |-> FALSE]
    /\ env = [ads |-> RawAds, totals |-> {0}, broken |-> {}, details |-> {DetailFailure}]
    /\ \E ad \in env.ads : fr = [f \in {0} |-> [pc |-> "raw", ad |-> ad, items |-> <<>>]]

SpecAd == InitAd /\ [][NextAd]_vars

----------------------------------------------------------------------------
(* The scan of a detail page for the object around "adProperties", on its  *)
(* own.  A page is a sequence of units: "{", "}", a double quote "q", and  *)
(* "k", the text "adProperties" with its two quotes.  Positions count from *)
(* 0 as in the code.  Under SpecScan fr[0] holds the page and, once        *)
(* scanned, start and end.                                                 *)

MaxHtml == 6

Units == {"{", "}", "q", "k"}

charAt(html, k) == html[k + 1]

(* html.indexOf('"adProperties"'), -1 when it does not occur *)
indexOf(html, unit) ==
    IF \E k \in 0 .. Len(html) - 1 : charAt(html, k) = unit
    THEN CHOOSE k \in 0 .. Len(html) - 1 :
            /\ charAt(html, k) = unit
            /\ \A m \in 0 .. k - 1 : charAt(html, m) # unit
    ELSE 0 - 1

RECURSIVE scanBack(_, _, _, _)
(* for (k = apIdx; k >= 0; k--): the position of the "{" that takes the    *)
(* depth below 0, apIdx when there is none                                 *)
scanBack(html, apIdx, k, braceDepth) ==
    IF k < 0 THEN apIdx
    ELSE LET closed == IF charAt(html, k) = "}" THEN braceDepth + 1 ELSE braceDepth
             opened == IF charAt(html, k) = "{" THEN closed - 1 ELSE closed
         IN IF charAt(html, k) = "{" /\ opened < 0 THEN k
            ELSE scanBack(html, apIdx, k - 1, opened)

RECURSIVE scanForward(_, _, _, _)
(* for (k = start; k < html.length; k++): one past the "}" that takes the  *)
(* depth to 0, start when there is none                                    *)
scanForward(html, start, k, braceDepth) ==
    IF k >= Len(html) THEN start
    ELSE LET opened == IF charAt(html, k) = "{" THEN braceDepth + 1 ELSE braceDepth
             closed == IF charAt(html, k) = "}" THEN opened - 1 ELSE opened
         IN IF charAt(html, k) = "}" /\ closed = 0 THEN k + 1
            ELSE scanForward(html, start, k + 1, closed)

(* start and end as the task computes them; apIdx < 0: no scan *)
braceScan(html) ==
    LET apIdx == indexOf(html, "k") IN
    IF apIdx < 0 THEN [apIdx |-> apIdx, start |-> 0, end |-> 0]
    ELSE LET start == scanBack(html, apIdx, apIdx, 0) IN
         [apIdx |-> apIdx, start |-> start, end |-> scanForward(html, start, start, 0)]

BraceScan ==
    /\ fr[0].pc = "raw"
    /\ fr' = [fr EXCEPT ![0].pc = "scanned", ![0].scan = braceScan(fr[0].html)]
    /\ UNCHANGED <<req, env>>

NextScan == BraceScan

InitScan ==
    /\ req = [limit |-> 1, sort |-> "relevance", strict |-> FALSE, query |-> <<"t1">>,
              concurrency |-> 1, states |-> <<>>, category |-> "none",
              noRateLimit |-> FALSE]
    /\ env = [ads |-> {}, totals |-> {0}, broken |-> {}, details |-> {}]
    /\ \E html \in SeqsUpTo(Units, MaxHtml) :
          fr = [f \in {0} |-> [pc |-> "raw", html |-> html,
                               scan |-> [apIdx |-> 0 - 1, start |-> 0, end |-> 0]]]

SpecScan == InitScan /\ [][NextScan]_vars

----------------------------------------------------------------------------
(* Properties *)

single == Len(stateList) <= 1
multi == Len(stateList) > 1
final == fr[0].items

(* the invocations that take the single-state branch *)
singleFrames == IF multi THEN regions ELSE {0}

noDupIds(items) ==
    \A a, b \in 1 .. Len(items) : (a < b /\ items[a].id # 0) => items[a].id # items[b].id

(* the elements of s at the positions in K, in order *)
pick(s, K) ==
    [n \in 1 .. Cardinality(K) |-> s[CHOOSE p \in K : Cardinality({q \in K : q <= p}) = n]]

firstN(s, n) == [m \in 1 .. Min(n, Len(s)) |-> s[m]]

(* The round-robin order of the successful states' results: position       *)
(* <<i, k>> (rank i of state k) comes before <<j, l>> when i < j, or i = j *)
(* and k < l.                                                              *)
succeeded == {k \in regions : fr[k].pc = "done"}

slots == {p \in (1 .. MaxLimit * STRICT_FACTOR) \X succeeded : p[1] <= Len(fr[p[2]].items)}

before(p, q) == p[1] < q[1] \/ (p[1] = q[1] /\ p[2] < q[2])

roundRobin ==
    [n \in 1 .. Cardinality(slots) |->
        LET p == CHOOSE p \in slots : Cardinality({q \in slots : before(q, p)}) = n - 1
        IN fr[p[2]].items[p[1]]]

(* the positions of s that hold a null id or the first occurrence of an id *)
firstOccurrences(s) ==
    {n \in 1 .. Len(s) : s[n].id = 0 \/ \A m \in 1 .. (n - 1) : s[m].id # s[n].id}

nullCount(s) == Cardinality({n \in 1 .. Len(s) : s[n].id = 0})

(* C1: every result of search(), of one state or of several, has at most   *)
(* limit items.                                                            *)
C1_AtMostLimit ==
    /\ fr[0].pc = "done" => Len(final) <= req.limit
    /\ \A k \in regions : fr[k].pc = "done" => Len(fr[k].items) <= fr[k].limit

(* a merged result that fills the limit out of states that gathered more *)
C1_Witness ==
    /\ multi /\ fr[0].pc = "done" /\ Len(final) = req.limit
    /\ \E k \in regions : fr[k].pc = "done" /\ fr[k].gathered > fr[k].limit
    /\ Cardinality(slots) > req.limit

(* C2: the result of a single-state search holds no two items with the     *)
(* same non-null id.                                                       *)
C2_SingleNoDupIds == (single /\ fr[0].pc = "done") => noDupIds(final)

(* C3: the result of a multi-state search holds no two items with the same *)
(* non-null id; of the items sharing an id the first in merge order is the *)
(* one kept; an item with a null id is never dropped as a duplicate.       *)
C3_MergedNoDupIds ==
    (multi /\ fr[0].pc = "done") =>
        /\ noDupIds(final)
        /\ \A n \in 1 .. Len(final) :
             final[n].id # 0 =>
                \E p \in firstOccurrences(roundRobin) : roundRobin[p] = final[n]
        /\ Len(final) < req.limit => nullCount(final) = nullCount(roundRobin)

(* two states returned the same listing, and one returned two items        *)
(* without id: the listing is there once, the items without id both        *)
C3_Witness ==
    /\ multi /\ fr[0].pc = "done"
    /\ \E k, l \in succeeded :
         \E i \in 1 .. Len(fr[k].items) : \E j \in 1 .. Len(fr[l].items) :
            k < l /\ fr[k].items[i].id # 0 /\ fr[k].items[i].id = fr[l].items[j].id
    /\ nullCount(final) >= 2
    /\ Len(final) < Cardinality(slots)

(* C4: without price sort and without shared ids, the result of a          *)
(* multi-state search is the first limit items of the round-robin          *)
(* interleaving of the successful states' results.                         *)
C4_RoundRobin ==
    (/\ multi /\ fr[0].pc = "done"
     /\ req.sort \notin {"price_asc", "price_desc"}
     /\ firstOccurrences(roundRobin) = 1 .. Len(roundRobin))
        => final = firstN(roundRobin, req.limit)

(* A = [a1, a2, a3], B = [b1]: the result is [a1, b1, a2] *)
C4_Witness ==
    /\ multi /\ fr[0].pc = "done" /\ req.limit = 3
    /\ firstOccurrences(roundRobin) = 1 .. Len(roundRobin)
    /\ \E k, l \in succeeded : k < l /\ Len(fr[k].items) = 3 /\ Len(fr[l].items) = 1
                                /\ final = <<fr[k].items[1], fr[l].items[1], fr[k].items[2]>>

(* C5: in a single-state search, capped is true exactly when the           *)
(* pagination stopped while upstream results remained unfetched; when      *)
(* every upstream result has been gathered, capped is false.  Stated for   *)
(* the runs where "every upstream result" is beyond doubt: the pages read  *)
(* held exactly the records that totalOfAds announces for them, and the    *)
(* result holds every record gathered.                                     *)
upstreamExact(f) ==
    /\ f.totalOfAds # NULL
    /\ f.gathered = Min(f.totalOfAds, f.page * PageSize)
    /\ Len(f.items) = f.gathered

C5_CappedIffNotExhausted ==
    (single /\ fr[0].pc \in {"enrich", "done"} /\ upstreamExact(fr[0])) =>
        (fr[0].capped <=> moreAvailable(fr[0].page, fr[0].totalOfAds))

(* C6: in a single-state search, a failure of the fetch of a page n >= 2   *)
(* is absorbed: the search does not reject once page 1 has been read.      *)
C6_LaterPageFailureAbsorbed ==
    (single /\ fr[0].pc = "rejected") => fr[0].page <= 1

(* C7: a single-state search that has passed validation fetches page 1     *)
(* first; when that fetch fails on both transports or yields no page state *)
(* the search rejects, with no result, no second page and no detail page.  *)
C7_FirstPageFatal ==
    \A f \in singleFrames :
        /\ (fr[f].pc \in {"paging", "shape", "enrich", "done"}) =>
               (fr[f].page >= 1 /\ fr[f].firstKind = "page")
        /\ (fr[f].pc = "rejected" /\ fr[f].error # "validation") => fr[f].page >= 1
        /\ (fr[f].page >= 1 /\ fr[f].firstKind # "page") =>
               /\ fr[f].pc = "rejected"
               /\ fr[f].page = 1
               /\ fr[f].items = <<>>
               /\ fr[f].fetched = <<>>

(* the first page came without an ads array *)
C7_Witness == single /\ fr[0].pc = "rejected" /\ fr[0].firstKind = "noads"

(* C8: in a multi-state search a state whose search fails contributes      *)
(* nothing and fails nothing: the search resolves with the merge of the    *)
(* states that succeeded.                                                  *)
C8_RegionFailureIsolated ==
    multi =>
        /\ fr[0].pc = "rejected" => fr[0].error = "validation"
        /\ fr[0].pc = "done" =>
             /\ \A n \in 1 .. Len(final) : \E k \in succeeded : final[n].uf = stateList[k]
             /\ Len(final) = Min(req.limit, Cardinality(firstOccurrences(roundRobin)))
             /\ req.sort \notin {"price_asc", "price_desc"} =>
                    final = firstN(pick(roundRobin, firstOccurrences(roundRobin)), req.limit)

(* one state failed after it had gathered items, the other succeeded, and  *)
(* the result holds the other's items                                      *)
C8_Witness ==
    /\ multi /\ fr[0].pc = "done" /\ final # <<>>
    /\ \E k \in regions : fr[k].pc = "rejected" /\ fr[k].items # <<>>

(* C9: a detail fetch that fails, or a detail page with neither block,     *)
(* leaves its item's description, attributes and sellerName null; the      *)
(* other items are enriched from their own pages, every item with a        *)
(* permalink is fetched whatever happened to the others, and the search    *)
(* does not reject.                                                        *)
enrichedFrom(item, html) ==
    IF html.kind = "detail" /\ (html.ld \/ html.rsc)
    THEN /\ (html.ld /\ html.desc) => item.description = item.permalink
         /\ (html.rsc /\ html.props) => item.attributes = item.permalink
         /\ (html.rsc /\ html.seller) => item.sellerName = item.permalink
    ELSE item.description = 0 /\ item.attributes = 0 /\ item.sellerName = 0

C9_DetailFailureIsolated ==
    \A f \in singleFrames :
        /\ fr[f].pc = "done" =>
             \A j \in 1 .. Len(fr[f].queue) :
                /\ fr[f].answers[j].kind # "none"
                /\ enrichedFrom(fr[f].items[fr[f].queue[j]], fr[f].answers[j])
        /\ fr[f].pc = "rejected" => fr[f].fetched = <<>>

(* a failed fetch and a successful one in the same batch, and a later batch *)
C9_Witness ==
    /\ single /\ fr[0].pc = "done" /\ req.concurrency = 2 /\ Len(fr[0].queue) = 3
    /\ fr[0].answers[1].kind = "fail"
    /\ fr[0].answers[2].kind = "detail" /\ fr[0].answers[2].ld
    /\ fr[0].items[fr[0].queue[2]].description # 0
    /\ fr[0].answers[3].kind = "detail" /\ ~fr[0].answers[3].ld
    /\ fr[0].items[fr[0].queue[1]].description = 0

(* C10: a detail page is fetched only for an item of the final result that *)
(* has a permalink, so one search issues at most limit detail fetches.     *)
detailFetches == SumSeq([f \in 1 .. MaxRegions + 1 |-> Len(fr[f - 1].fetched)])

C10_DetailOnlyForFinal ==
    fr[0].pc = "done" =>
        /\ detailFetches <= req.limit
        /\ \A f \in Frames : \A n \in 1 .. Len(fr[f].fetched) :
             \E m \in 1 .. Len(final) :
                final[m].permalink = fr[f].fetched[n] /\ final[m].uf = fr[f].state

(* C11: in an invocation of the single-state branch with concurrency       *)
(* c >= 1, at most c detail fetches are in flight at any moment, and the   *)
(* fetches of a batch start only when every fetch of the batches before it *)
(* has settled: while a fetch is in flight, every queue position of an     *)
(* earlier batch has its answer and no position of a later batch has been  *)
(* requested.                                                              *)
C11_BatchBounded ==
    \A f \in singleFrames :
        (req.concurrency >= 1 /\ fr[f].pc = "enrich") =>
            /\ Cardinality(fr[f].pending) <= req.concurrency
            /\ \A j \in fr[f].pending : fr[f].i < j /\ j <= fr[f].i + req.concurrency
            /\ Len(fr[f].fetched) = Min(fr[f].i + req.concurrency, Len(fr[f].queue))
            /\ \A m \in 1 .. Len(fr[f].queue) :
                 /\ m <= fr[f].i => fr[f].answers[m].kind # "none"
                 /\ m > fr[f].i + req.concurrency => fr[f].answers[m].kind = "none"
                 /\ m \in fr[f].pending => fr[f].answers[m].kind = "none"

(* three items to enrich, two at a time: one fetch of the first batch has  *)
(* settled, the other is in flight, the third item waits                   *)
C11_Witness ==
    /\ single /\ fr[0].pc = "enrich" /\ req.concurrency = 2
    /\ Len(fr[0].queue) = 3 /\ fr[0].i = 0
    /\ fr[0].pending = {2}
    /\ fr[0].answers[1].kind # "none"
    /\ Len(fr[0].fetched) = 2

(* C12: with rate limiting enabled (noRateLimit not set) at most 3 detail  *)
(* fetches are in flight at any moment, also when concurrency is above 3.  *)
C12_RateLimitCap ==
    \A f \in Frames :
        ~req.noRateLimit => Cardinality(fr[f].pending) <= RATE_LIMIT_MAX_CONCURRENCY

(* C13: under a price sort the returned items, which are the first limit   *)
(* of the sorted sequence, are in price order (non-decreasing for          *)
(* price_asc, non-increasing for price_desc), and every item with a null   *)
(* price comes after every item with a price, a price of 0 included.       *)
pricesAscend(items) ==
    \A a, b \in 1 .. Len(items) :
        (a < b /\ items[a].price # NULL /\ items[b].price # NULL) =>
            items[a].price <= items[b].price

pricesDescend(items) ==
    \A a, b \in 1 .. Len(items) :
        (a < b /\ items[a].price # NULL /\ items[b].price # NULL) =>
            items[a].price >= items[b].price

nullPricesLast(items) ==
    \A a, b \in 1 .. Len(items) :
        (a < b /\ items[a].price = NULL) => items[b].price = NULL

C13_PriceSortNullsLast ==
    fr[0].pc = "done" =>
        /\ req.sort = "price_asc" => (pricesAscend(final) /\ nullPricesLast(final))
        /\ req.sort = "price_desc" => (pricesDescend(final) /\ nullPricesLast(final))

(* C14: a search() with a category outside the registry, or with a state   *)
(* list that holds a code outside the valid set (whatever its other codes  *)
(* are), rejects with a validation error and issues no request: no listing *)
(* page, no detail page, no per-state search.                              *)
badRequest ==
    \/ req.category = "unknown"
    \/ \E k \in 1 .. Len(req.states) : req.states[k] = 0

C14_ValidationFirst ==
    badRequest =>
        /\ fr[0].pc \in {"start", "rejected"}
        /\ fr[0].pc = "rejected" => fr[0].error = "validation"
        /\ \A f \in Frames : fr[f].page = 0 /\ fr[f].fetched = <<>>
        /\ \A f \in Frames \ {0} : fr[f].pc = "idle"

(* a list whose first code is valid and whose second is not *)
C14_Witness ==
    /\ fr[0].pc = "rejected" /\ fr[0].error = "validation"
    /\ Len(req.states) = 2 /\ req.states[1] # 0 /\ req.states[2] = 0

(* C15: a search() with a non-positive limit or concurrency rejects with a *)
(* validation error and issues no request.                                 *)
C15_NumericOptionsValidated ==
    (req.limit <= 0 \/ req.concurrency <= 0) =>
        /\ fr[0].pc \in {"start", "rejected"}
        /\ fr[0].pc = "rejected" => fr[0].error = "validation"
        /\ \A f \in Frames : fr[f].page = 0 /\ fr[f].fetched = <<>>

(* C16: a searchRaw() with a state code outside the valid set fails        *)
(* validation and issues no request.                                       *)
C16_RawStateValidated ==
    (\E k \in 1 .. Len(req.states) : req.states[k] = 0) =>
        /\ fr[0].tries = <<>>
        /\ fr[0].pc \in {"start", "rejected"}
        /\ fr[0].pc = "rejected" => fr[0].error = "validation"

(* C17: fetchPage tries the direct transport first and once, the curl      *)
(* transport at most once and only after the direct attempt failed; it     *)
(* returns the body of the first attempt that succeeds and fails only when *)
(* both attempts failed.                                                   *)
C17_FallbackOnce ==
    /\ fr[0].tries \in {<<>>, <<"fetch">>, <<"fetch", "curl">>}
    /\ fr[0].pc = "direct" => (fr[0].tries = <<"fetch">> /\ fr[0].direct = NotTried)
    /\ Len(fr[0].tries) = 2 => fr[0].direct.kind = "fail"
    /\ Len(fr[0].tries) < 2 => fr[0].curl = NotTried
    /\ fr[0].pc \in {"fetched", "returned"} =>
          /\ fr[0].html.kind \notin {"fail", "untried"}
          /\ fr[0].html = IF fr[0].direct.kind # "fail" THEN fr[0].direct ELSE fr[0].curl
          /\ fr[0].html = fetchPage(fr[0].direct, fr[0].curl)
    /\ (fr[0].pc = "rejected" /\ fr[0].error = "transport") <=>
          (fr[0].direct.kind = "fail" /\ fr[0].curl.kind = "fail")

(* the direct attempt failed and curl brought the page *)
C17_Witness ==
    /\ fr[0].pc = "returned" /\ fr[0].tries = <<"fetch", "curl">>
    /\ fr[0].direct.kind = "fail" /\ fr[0].curl.kind = "page"
    /\ fr[0].result = fr[0].curl /\ Len(fr[0].result.ads) = PageSize

(* C18: an item matches the query when every word of the query that is     *)
(* longer than one character and no stop word occurs in the item's title,  *)
(* description or property values; when no word survives every item        *)
(* matches.  With strict set, every item search() returns matches, and     *)
(* with no surviving word the strict filter drops nothing.                 *)
survives(w) == Len(w) > 1 /\ w \notin STOP_WORDS

matches(item) ==
    \A k \in 1 .. Len(req.query) :
        survives(req.query[k]) => req.query[k] \in (item.words \cup item.dwords)

C18_StrictOnlyMatching ==
    req.strict =>
        /\ \A f \in Frames : fr[f].pc \in {"enrich", "done"} =>
              \A n \in 1 .. Len(fr[f].items) : matches(fr[f].items[n])
        /\ \A f \in singleFrames :
              (fr[f].pc = "done" /\ \A k \in 1 .. Len(req.query) : ~survives(req.query[k])) =>
                  Len(fr[f].items) = Min(fr[f].limit, fr[f].gathered)

(* two items gathered, one with both tokens in its title, one with one of  *)
(* them: only the first is returned                                        *)
C18_Witness ==
    /\ single /\ req.strict /\ fr[0].pc = "done"
    /\ req.query = <<"t1", "de", "t2">>
    /\ fr[0].gathered = 2 /\ Len(final) = 1 /\ req.limit >= 2
    /\ final[1].words = {"t1", "t2"}

(* C19: in an invocation of the single-state branch the listing pages are  *)
(* requested in the order 1, 2, 3, ...; page n + 1 is requested only when, *)
(* with page n accumulated, fewer than limit items are held, n * pageSize  *)
(* is below the reported total (an absent total bounds nothing) and n is   *)
(* below the page budget.  As amended: at most                             *)
(* max(1, min(budget, ceil(total / pageSize))) pages are fetched, the      *)
(* first page being fetched before any total is known; and a search with a *)
(* limit above the total that gathers the total items reports capped       *)
(* false.                                                                  *)
ceilDiv(a, b) == (a + b - 1) \div b

Max(a, b) == IF a > b THEN a ELSE b

nextPageAllowed(f) ==
    /\ f.pc = "paging"
    /\ Len(f.items) < f.limit
    /\ (f.totalOfAds = NULL \/ f.page * PageSize < f.totalOfAds)
    /\ f.page < MaxPages

pagesInOrder ==
    \A f \in singleFrames :
        fr'[f].page # fr[f].page =>
            /\ fr'[f].page = fr[f].page + 1
            /\ fr[f].page = 0 => fr[f].pc = "start"
            /\ fr[f].page >= 1 => nextPageAllowed(fr[f])

pagesWithinBudget ==
    \A f \in singleFrames :
        /\ fr[f].page <= MaxPages
        /\ fr[f].totalOfAds # NULL =>
              fr[f].page <= Max(1, Min(MaxPages, ceilDiv(fr[f].totalOfAds, PageSize)))
        /\ (fr[f].pc = "done" /\ fr[f].totalOfAds # NULL /\ fr[f].limit > fr[f].totalOfAds
              /\ fr[f].gathered = fr[f].totalOfAds /\ fr[f].totalOfAds <= MaxPages * PageSize)
                => ~fr[f].capped

C19_PagesInOrder == [][pagesInOrder]_vars /\ []pagesWithinBudget

(* C19 as stated: at most min(budget, ceil(total / pageSize)) pages are    *)
(* fetched.                                                                *)
C19_PageBudget ==
    \A f \in singleFrames :
        fr[f].totalOfAds # NULL =>
            fr[f].page <= Min(MaxPages, ceilDiv(fr[f].totalOfAds, PageSize))

(* the example, scaled: a limit above the total, a total of one page and a *)
(* half, two pages fetched, capped false                                   *)
C19_Witness ==
    /\ single /\ fr[0].pc = "done"
    /\ fr[0].totalOfAds = PageSize + 1 /\ req.limit > PageSize + 1
    /\ fr[0].page = 2 /\ fr[0].gathered = PageSize + 1
    /\ ~fr[0].capped

(* C20: in an invocation of the single-state branch, when a fetched page   *)
(* n >= 2 adds no record, the pagination stops: once that page is read, no *)
(* page n + 1 can be requested.  Stated for the page that holds records,   *)
(* every one of them with an id already seen.                              *)
pageAddedNothing(f) ==
    /\ fr[f].page >= 1
    /\ fr'[f].page = fr[f].page + 1
    /\ fr'[f].pc # "rejected"
    /\ fr'[f].pageRecords >= 1
    /\ Len(fr'[f].items) = Len(fr[f].items)

C20_StopOnNoNewRecords ==
    [][\A f \in singleFrames : pageAddedNothing(f) => ~nextPageAllowed(fr'[f])]_vars

(* C21: in a multi-state search each per-state search gathers into its own *)
(* accumulator (its items are listings of its own state), the merge starts *)
(* only when every per-state search has settled, by success or by failure, *)
(* and the merged result is the one computed from the results in request   *)
(* order, whatever the order in which the searches settled.                *)
inRequestOrder ==
    slice(sortItems(strictFilterMerged(pick(roundRobin, firstOccurrences(roundRobin)),
                                       req.strict, getQueryTokens(req.query)),
                    req.sort),
          0, req.limit)

C21_MergeAfterAllSettled ==
    multi =>
        /\ \A k \in regions : \A n \in 1 .. Len(fr[k].items) : fr[k].items[n].uf = stateList[k]
        /\ (\E k \in regions : fr[k].pc \notin {"done", "rejected"}) =>
              /\ fr[0].pc \in {"start", "await", "rejected"}
              /\ fr[0].items = <<>> /\ fr[0].total = 0 /\ fr[0].url = 0
        /\ fr[0].pc = "done" =>
              /\ Len(fr[0].settled) = Len(stateList)
              /\ final = inRequestOrder
              /\ fr[0].total = SumSeq([k \in 1 .. Len(stateList) |->
                                        IF fr[k].pc = "done" THEN fr[k].total ELSE 0])

(* the second state settled first, and the result still starts with the    *)
(* first state's item                                                      *)
C21_Witness ==
    /\ multi /\ fr[0].pc = "done" /\ fr[0].settled = <<2, 1>>
    /\ fr[1].pc = "done" /\ fr[2].pc = "done"
    /\ Len(final) >= 2
    /\ final[1].uf = stateList[1] /\ final[2].uf = stateList[2]

(* C22: enrichment replaces an item's images only when the detail page's   *)
(* ld+json block yields a non-empty image list; after a detail fetch that  *)
(* succeeds without images the item still has its listing images.  Stated  *)
(* for the runs in which every listing comes with images.                  *)
C22_ListingImagesKept ==
    \A f \in singleFrames :
        (fr[f].pc = "done" /\ \A a \in env.ads : a.images) =>
            \A j \in 1 .. Len(fr[f].queue) :
                LET html == fr[f].answers[j]
                    item == fr[f].items[fr[f].queue[j]]
                IN /\ (html.kind = "detail" /\ html.ld /\ html.img) => item.images = "detail"
                   /\ ~(html.kind = "detail" /\ html.ld /\ html.img) => item.images = "listing"

(* C23: in a multi-state search capped is true exactly when the pipeline   *)
(* stopped before every upstream result of the states that succeeded was   *)
(* in the result.  Stated for the runs where that is beyond doubt: every   *)
(* successful state reported a total and its pages held exactly the        *)
(* records the total announces for them.                                   *)
regionExact(f) ==
    f.totalOfAds # NULL /\ f.gathered = Min(f.totalOfAds, f.page * PageSize)

allInResult ==
    /\ \A k \in succeeded : fr[k].gathered = fr[k].totalOfAds
    /\ Len(final) = SumSeq([k \in 1 .. Len(stateList) |->
                              IF fr[k].pc = "done" THEN fr[k].totalOfAds ELSE 0])

C23_MergedCappedIffNotExhausted ==
    (multi /\ fr[0].pc = "done" /\ \A k \in succeeded : regionExact(fr[k])) =>
        (fr[0].capped <=> ~allInResult)

(* C24: for a sort other than price_asc and price_desc, shaping does not   *)
(* reorder.  In the single-state branch the shaped items are a subsequence *)
(* of the items as accumulated, and enrichment keeps every item in its     *)
(* place; in a multi-state search the result is a subsequence of the       *)
(* round-robin interleaving.  Filter and truncation only remove items.     *)
RECURSIVE isSubseq(_, _)
isSubseq(a, b) ==
    IF a = <<>> THEN TRUE
    ELSE IF b = <<>> THEN FALSE
    ELSE IF Head(a) = Head(b) THEN isSubseq(Tail(a), Tail(b))
    ELSE isSubseq(a, Tail(b))

sameListing(x, y) ==
    /\ x.id = y.id /\ x.permalink = y.permalink /\ x.price = y.price
    /\ x.uf = y.uf /\ x.words = y.words

noPriceSort == req.sort \notin {"price_asc", "price_desc"}

orderKept ==
    \A f \in singleFrames :
        /\ (fr[f].pc \in {"paging", "shape"} /\ fr'[f].pc \in {"enrich", "done"}) =>
              isSubseq(fr'[f].items, fr[f].items)
        /\ (fr[f].pc = "enrich" /\ fr'[f].pc \in {"enrich", "done"}) =>
              /\ Len(fr'[f].items) = Len(fr[f].items)
              /\ \A n \in 1 .. Len(fr[f].items) : sameListing(fr'[f].items[n], fr[f].items[n])

C24_NoReorder ==
    /\ [][noPriceSort => orderKept]_vars
    /\ []((multi /\ noPriceSort /\ fr[0].pc = "done") => isSubseq(final, roundRobin))

(* the middle item of the interleaving is dropped as a duplicate and the   *)
(* items around it keep their order                                        *)
C24_Witness ==
    /\ multi /\ noPriceSort /\ fr[0].pc = "done"
    /\ Len(roundRobin) = 3 /\ Len(final) = 2
    /\ final = <<roundRobin[1], roundRobin[3]>>

(* C25: discountPercent of a normalised item is                            *)
(* round((oldPrice - price) / oldPrice * 100) exactly when price and       *)
(* oldPrice are both there (a price of 0 included) and oldPrice > price,   *)
(* and null otherwise.                                                     *)
nearest(d, num, den) == 2 * den * d <= 2 * num + den /\ 2 * num + den < 2 * den * (d + 1)

C25_DiscountPercent ==
    \A n \in 1 .. Len(fr[0].items) :
        LET item == fr[0].items[n] IN
        IF item.price # NULL /\ item.oldPrice # NULL /\ item.oldPrice > item.price
        THEN /\ item.discountPercent # NULL
             /\ nearest(item.discountPercent, (item.oldPrice - item.price) * 100, item.oldPrice)
        ELSE item.discountPercent = NULL

(* C26: a batch of the detail enrichment holds at least one item for every *)
(* value of concurrency (a value below 1 behaves as 1), so the loop moves  *)
(* on: while an invocation enriches, the batch it waits for is not empty   *)
(* and has at most max(1, concurrency) items, and when it is done every    *)
(* item with a permalink has been fetched exactly once, in queue order.    *)
batchNow(f) == batchOf(fr[f].queue, fr[f].i, req.concurrency)

fetchedOnce(f) ==
    /\ Len(fr[f].fetched) = Len(fr[f].queue)
    /\ \A j \in 1 .. Len(fr[f].queue) :
         fr[f].fetched[j] = fr[f].items[fr[f].queue[j]].permalink

C26_BatchAtLeastOne ==
    \A f \in singleFrames :
        /\ fr[f].pc = "enrich" =>
              /\ batchNow(f) # {}
              /\ Cardinality(batchNow(f)) <= Max(1, req.concurrency)
        /\ fr[f].pc = "done" => fetchedOnce(f)

(* C27: a detail task writes to its own item only.  In whatever order the  *)
(* fetches of a batch settle, the description, attributes and seller name  *)
(* of an item are null or those of the page of its own permalink, they are *)
(* those of the answer its own fetch got once its batch has been assigned, *)
(* and an item without a permalink is never fetched and keeps them null.   *)
ownPage(item) ==
    /\ item.description \in {0, item.permalink}
    /\ item.attributes \in {0, item.permalink}
    /\ item.sellerName \in {0, item.permalink}

fromOwnAnswer(item, html) ==
    html.kind = "detail" =>
        /\ item.description = (IF html.ld /\ html.desc THEN item.permalink ELSE 0)
        /\ item.attributes = (IF html.rsc /\ html.props THEN item.permalink ELSE 0)
        /\ item.sellerName = (IF html.rsc /\ html.seller THEN item.permalink ELSE 0)

C27_OwnItemOnly ==
    \A f \in singleFrames :
        fr[f].pc \in {"enrich", "done"} =>
            /\ \A n \in 1 .. Len(fr[f].items) :
                 /\ ownPage(fr[f].items[n])
                 /\ fr[f].items[n].permalink = 0 =>
                       /\ fr[f].items[n].description = 0
                       /\ fr[f].items[n].attributes = 0
                       /\ fr[f].items[n].sellerName = 0
                       /\ \A j \in 1 .. Len(fr[f].queue) : fr[f].queue[j] # n
            /\ \A k \in 1 .. Len(fr[f].fetched) : fr[f].fetched[k] # 0
            /\ \A j \in 1 .. Len(fr[f].queue) :
                 (j <= fr[f].i \/ fr[f].pc = "done") =>
                     fromOwnAnswer(fr[f].items[fr[f].queue[j]], fr[f].answers[j])

(* two items of one batch with different permalinks, the second fetch      *)
(* settled first, each enriched from its own page; a third item without a  *)
(* permalink                                                               *)
C27_Witness ==
    /\ single /\ fr[0].pc = "done" /\ fr[0].outOfOrder
    /\ Len(fr[0].items) = 3 /\ Len(fr[0].queue) = 2
    /\ fr[0].items[fr[0].queue[1]].permalink # fr[0].items[fr[0].queue[2]].permalink
    /\ \A j \in 1 .. 2 :
         fr[0].items[fr[0].queue[j]].description = fr[0].items[fr[0].queue[j]].permalink
    /\ \E n \in 1 .. 3 : fr[0].items[n].permalink = 0

(* C28: the scan for the object around "adProperties" is not misled by     *)
(* braces inside string literals: on a page whose quotes and braces are    *)
(* well formed and whose key lies in an object, start is the position of   *)
(* the "{" of the innermost object that holds the key and end is one past  *)
(* its "}", whatever braces occur inside strings before or after the key.  *)
quotesBefore(html, k) == Cardinality({m \in 0 .. k - 1 : charAt(html, m) = "q"})

inString(html, k) == quotesBefore(html, k) % 2 = 1

realBrace(html, k, unit) == charAt(html, k) = unit /\ ~inString(html, k)

(* the objects open just before position k *)
depthAt(html, k) ==
    Cardinality({m \in 0 .. k - 1 : realBrace(html, m, "{")})
        - Cardinality({m \in 0 .. k - 1 : realBrace(html, m, "}")})

wellFormed(html) ==
    /\ quotesBefore(html, Len(html)) % 2 = 0
    /\ \A k \in 0 .. Len(html) : depthAt(html, k) >= 0
    /\ depthAt(html, Len(html)) = 0
    /\ Cardinality({k \in 0 .. Len(html) - 1 : charAt(html, k) = "k"}) = 1
    /\ ~inString(html, indexOf(html, "k"))
    /\ depthAt(html, indexOf(html, "k")) >= 1

enclosingStart(html) ==
    LET apIdx == indexOf(html, "k") IN
    CHOOSE k \in 0 .. apIdx - 1 :
        /\ realBrace(html, k, "{")
        /\ depthAt(html, k) = depthAt(html, apIdx) - 1
        /\ \A m \in k + 1 .. apIdx : depthAt(html, m) >= depthAt(html, apIdx)

enclosingEnd(html) ==
    LET apIdx == indexOf(html, "k") IN
    1 + CHOOSE k \in apIdx + 1 .. Len(html) - 1 :
            /\ realBrace(html, k, "}")
            /\ depthAt(html, k + 1) = depthAt(html, apIdx) - 1
            /\ \A m \in apIdx .. k : depthAt(html, m) >= depthAt(html, apIdx)

braceInString(html) ==
    \E k \in 0 .. Len(html) - 1 : charAt(html, k) \in {"{", "}"} /\ inString(html, k)

C28_StringBracesIgnored ==
    (fr[0].pc = "scanned" /\ wellFormed(fr[0].html)) =>
        /\ fr[0].scan.start = enclosingStart(fr[0].html)
        /\ fr[0].scan.end = enclosingEnd(fr[0].html)

(* C29: a multi-state search whose request is valid never rejects, and     *)
(* when every per-state search has failed it resolves, for limit >= 1,     *)
(* with no items, total 0, a null url and capped false, and with none of   *)
(* the errors of the per-state searches.                                   *)
allFailed == \A k \in regions : fr[k].pc = "rejected"

C29_AllRegionsFailResolves ==
    (multi /\ ~badRequest) =>
        /\ fr[0].pc # "rejected"
        /\ fr[0].error = "none"
        /\ (fr[0].pc = "done" /\ allFailed /\ req.limit >= 1) =>
              /\ final = <<>>
              /\ fr[0].total = 0
              /\ fr[0].url = 0
              /\ ~fr[0].capped

(* two states: one search failed on its first page, the other after it had *)
(* gathered items, and the caller has resolved                             *)
C29_Witness ==
    /\ multi /\ fr[0].pc = "done" /\ allFailed /\ req.limit >= 1
    /\ final = <<>> /\ ~fr[0].capped
    /\ \E k \in regions : fr[k].items = <<>>
    /\ \E k \in regions : fr[k].items # <<>>

(* C30: in an invocation of the single-state branch the strict filter runs *)
(* before the detail enrichment.  Until the filter has run no detail page  *)
(* has been fetched and every item's description is null, so an item that  *)
(* passes the filter has every surviving token in its title or listing     *)
(* properties, and an item the filter removed is never fetched, also when  *)
(* the description of its detail page holds the missing token.             *)
unenriched(item) == item.description = 0 /\ item.dwords = {}

inListing(item) ==
    \A k \in 1 .. Len(req.query) : survives(req.query[k]) => req.query[k] \in item.words

====
